---------------------------- MODULE Spec2Model ----------------------------
(***************************************************************************)
(* flatten-to-key-value: flattenToKeyValue(input, opts) of src/src/index.ts *)
(* as a state machine.  A call is one input value and one options record;   *)
(* it walks the value into the accumulator `acc` (a Map from path to a list *)
(* of strings, in insertion order) and then builds the returned object      *)
(* `out`, or it raises.                                                     *)
(*                                                                         *)
(* Strings are sequences of one-character strings ("a.b" is                 *)
(* <<"a", ".", "b">>), so that concatenation, joining, comparison and the   *)
(* truthiness of the empty string are computed and not assumed.             *)
(* JavaScript values are records tagged by the field t.                     *)
(***************************************************************************)
EXTENDS Integers, Sequences, FiniteSets, TLC

VARIABLES input, opts, pc, acc, out

vars == <<input, opts, pc, acc, out>>

(***************************************************************************)
(* Bounds of the model.                                                     *)
(***************************************************************************)
\* nodes (containers and leaves) of an input drawn over a small alphabet
MaxNodes == 5
\* nodes of an input drawn over every kind of leaf, or over the sortable keys
MaxNodesWide == 4

(***************************************************************************)
(* JavaScript values.                                                       *)
(***************************************************************************)
Null == [t |-> "null"]
Undefined == [t |-> "undefined"]
Bool(b) == [t |-> "boolean", b |-> b]
Num(n) == [t |-> "number", n |-> n]
BigIntV(n) == [t |-> "bigint", big |-> n]
StrV(s) == [t |-> "string", s |-> s]
\* a Date object: valid = FALSE is a Date whose time value is NaN
DateV(valid, ms) == [t |-> "date", ms |-> ms, valid |-> valid]
\* a function; toJSON says whether it carries a toJSON method that throws
Fn(toJSON) == [t |-> "function", toJSON |-> toJSON]
Sym == [t |-> "symbol"]
Arr(items) == [t |-> "array", items |-> items]
\* fields: the sequence of <<name, value>> in own-property enumeration order
Obj(fields) == [t |-> "object", fields |-> fields]

\* the typeof operator
TypeOf(v) ==
  IF v.t \in {"null", "date", "array", "object"} THEN "object" ELSE v.t

\* Array.isArray
IsArray(v) == v.t = "array"

\* v instanceof Date
InstanceOfDate(v) == v.t = "date"

(***************************************************************************)
(* Strings.                                                                 *)
(***************************************************************************)
DigitChars == <<"0", "1", "2", "3", "4", "5", "6", "7", "8", "9">>

DigitSet == {"0", "1", "2", "3", "4", "5", "6", "7", "8", "9"}

\* the UTF-16 code unit of the characters that occur in keys
CharCode(c) ==
  CASE c = "." -> 46
    [] c = "/" -> 47
    [] c \in DigitSet ->
         48 + (CHOOSE i \in 0..9 : DigitChars[i + 1] = c)
    [] c = "a" -> 97
    [] c = "b" -> 98
    [] c = "c" -> 99

RECURSIVE StrLess(_, _)
\* a < b on two strings: by code units, a proper prefix first
StrLess(a, b) ==
  IF b = <<>> THEN FALSE
  ELSE IF a = <<>> THEN TRUE
  ELSE IF CharCode(Head(a)) # CharCode(Head(b))
       THEN CharCode(Head(a)) < CharCode(Head(b))
       ELSE StrLess(Tail(a), Tail(b))

RECURSIVE Digits(_)
\* String(n) of a non-negative integer
Digits(n) ==
  IF n < 10 THEN <<DigitChars[n + 1]>>
  ELSE Digits(n \div 10) \o <<DigitChars[(n % 10) + 1]>>

\* String(v) of a function: its source text, here of `()=>0`
FnText == <<"(", ")", "=", ">", "0">>

\* String(v)
StringOf(v) ==
  CASE v.t = "null" -> <<"n", "u", "l", "l">>
    [] v.t = "undefined" -> <<"u", "n", "d", "e", "f", "i", "n", "e", "d">>
    [] v.t = "boolean" ->
         IF v.b THEN <<"t", "r", "u", "e">> ELSE <<"f", "a", "l", "s", "e">>
    [] v.t = "number" -> Digits(v.n)
    [] v.t = "bigint" -> Digits(v.big)
    [] v.t = "string" -> v.s
    [] v.t = "function" -> FnText
    [] v.t = "symbol" -> <<"S", "y", "m", "b", "o", "l", "(", ")">>

\* the results of a call that may return a string, return undefined, or throw
RString(s) == [r |-> "string", s |-> s]
RUndefined == [r |-> "undefined"]
RThrow == [r |-> "throw"]

\* Date.prototype.toISOString for a time value within the first second of
\* the epoch; a RangeError for an invalid Date
ToISOString(d) ==
  IF ~d.valid THEN RThrow
  ELSE RString(<<"1", "9", "7", "0", "-", "0", "1", "-", "0", "1", "T",
                 "0", "0", ":", "0", "0", ":", "0", "0", ".">>
               \o (IF d.ms < 10 THEN <<"0", "0">>
                   ELSE IF d.ms < 100 THEN <<"0">> ELSE <<>>)
               \o Digits(d.ms) \o <<"Z">>)

\* JSON.stringify of the values that reach it in toStr: functions and
\* symbols serialize to undefined; a toJSON method that throws makes it throw
JSONStringify(v) ==
  IF v.t = "function" /\ v.toJSON = "throws" THEN RThrow ELSE RUndefined

RECURSIVE Join(_, _)
\* Array.prototype.join
Join(list, sep) ==
  IF list = <<>> THEN <<>>
  ELSE IF Len(list) = 1 THEN list[1]
  ELSE list[1] \o sep \o Join(Tail(list), sep)

(***************************************************************************)
(* flattenToKeyValue: the accumulator.                                      *)
(***************************************************************************)
\* the position of key in the Map m (a sequence of [key, list]), 0 if absent
IndexOfKey(m, key) ==
  IF \E i \in 1..Len(m) : m[i].key = key
  THEN CHOOSE i \in 1..Len(m) : m[i].key = key
  ELSE 0

\* Array.prototype.includes on a list of strings
Includes(list, val) == \E i \in 1..Len(list) : list[i] = val

\* add without the guard on the empty path
addUnguarded(m, dedupe, key, val) ==
  LET i == IndexOfKey(m, key) IN
  IF i # 0
  THEN IF ~dedupe \/ ~Includes(m[i].list, val)
       THEN [m EXCEPT ![i].list = Append(m[i].list, val)]
       ELSE m
  ELSE Append(m, [key |-> key, list |-> <<val>>])

\* add that looks for a repeat only at the end of the list
addAdjacent(m, dedupe, key, val) ==
  LET i == IndexOfKey(m, key) IN
  IF key = <<>> THEN m
  ELSE IF i # 0
  THEN IF ~dedupe \/ m[i].list[Len(m[i].list)] # val
       THEN [m EXCEPT ![i].list = Append(m[i].list, val)]
       ELSE m
  ELSE Append(m, [key |-> key, list |-> <<val>>])

\* add(key, val) on the Map m
add(m, dedupe, key, val) ==
  LET i == IndexOfKey(m, key) IN
  IF key = <<>> THEN m
  ELSE IF i # 0
  THEN IF ~dedupe \/ ~Includes(m[i].list, val)
       THEN [m EXCEPT ![i].list = Append(m[i].list, val)]
       ELSE m
  ELSE Append(m, [key |-> key, list |-> <<val>>])

(***************************************************************************)
(* flattenToKeyValue: the classifier and the stringification.               *)
(***************************************************************************)
isPlainObject(v) == TypeOf(v) = "object" /\ v.t # "null" /\ ~IsArray(v)

isPrimitive(v) ==
  \/ v.t = "null"
  \/ TypeOf(v) = "string"
  \/ TypeOf(v) = "number"
  \/ TypeOf(v) = "boolean"
  \/ TypeOf(v) = "bigint"

\* toStr that stringifies null and undefined whatever the option says
toStrAlways(v, includeNullUndefined) ==
  IF v.t = "null" \/ v.t = "undefined" THEN RString(StringOf(v))
  ELSE IF InstanceOfDate(v) THEN ToISOString(v)
  ELSE IF isPrimitive(v) THEN RString(StringOf(v))
  ELSE IF JSONStringify(v) = RThrow THEN RString(StringOf(v))
  ELSE JSONStringify(v)

\* toStr(v): a string, undefined, or the exception it lets through
toStr(v, includeNullUndefined) ==
  IF v.t = "null" \/ v.t = "undefined"
  THEN IF includeNullUndefined THEN RString(StringOf(v)) ELSE RUndefined
  ELSE IF InstanceOfDate(v) THEN ToISOString(v)
  ELSE IF isPrimitive(v) THEN RString(StringOf(v))
  ELSE IF JSONStringify(v) = RThrow THEN RString(StringOf(v))
  ELSE JSONStringify(v)

\* Object.entries(v): the own enumerable fields in enumeration order
ObjectEntries(v) == IF v.t = "object" THEN v.fields ELSE <<>>

(***************************************************************************)
(* flattenToKeyValue: the walk.  A walker state is the accumulator and      *)
(* whether an exception is propagating.                                     *)
(***************************************************************************)
EmptyWalk == [acc |-> <<>>, raised |-> FALSE]

\* const s = toStr(v); if (s !== undefined) add(path, s);
emit(st, v, path, o) ==
  LET s == toStr(v, o.includeNullUndefined) IN
  IF s = RThrow THEN [st EXCEPT !.raised = TRUE]
  ELSE IF s # RUndefined
       THEN [st EXCEPT !.acc = add(st.acc, o.dedupeArrayValues, path, s.s)]
       ELSE st

\* the path extension that always writes the delimiter
nextPathAlways(path, delimiter, k) == path \o delimiter \o k

\* const next = path ? `${path}${delimiter}${k}` : k;
nextPath(path, delimiter, k) ==
  IF path # <<>> THEN path \o delimiter \o k ELSE k

RECURSIVE walk(_, _, _, _)
RECURSIVE walkPrimitives(_, _, _, _, _)
RECURSIVE walkMixed(_, _, _, _, _)
RECURSIVE walkEntries(_, _, _, _, _)

\* for (const item of val) { const s = toStr(item); ... }, from item i on
walkPrimitives(items, i, path, st, o) ==
  IF st.raised \/ i > Len(items) THEN st
  ELSE walkPrimitives(items, i + 1, path, emit(st, items[i], path, o), o)

\* the loop over the elements of a mixed array, from item i on
walkMixed(items, i, path, st, o) ==
  IF st.raised \/ i > Len(items) THEN st
  ELSE LET item == items[i]
           after ==
             IF isPrimitive(item) \/ InstanceOfDate(item)
             THEN emit(st, item, path, o)
             ELSE IF IsArray(item) THEN walk(item, path, st, o)
             ELSE IF isPlainObject(item)
                  THEN walkEntries(ObjectEntries(item), 1, path, st, o)
                  ELSE st
       IN walkMixed(items, i + 1, path, after, o)

\* for (const [k, v] of Object.entries(val)) walk(v, next), from entry i on
walkEntries(entries, i, path, st, o) ==
  IF st.raised \/ i > Len(entries) THEN st
  ELSE walkEntries(entries, i + 1, path,
                   walk(entries[i][2],
                        nextPath(path, o.delimiter, entries[i][1]), st, o),
                   o)

\* walk(val, path)
walk(val, path, st, o) ==
  IF st.raised THEN st
  ELSE IF isPrimitive(val) \/ InstanceOfDate(val) THEN emit(st, val, path, o)
  ELSE IF IsArray(val)
       THEN IF \A i \in 1..Len(val.items) : isPrimitive(val.items[i])
            THEN walkPrimitives(val.items, 1, path, st, o)
            ELSE walkMixed(val.items, 1, path, st, o)
  ELSE IF isPlainObject(val)
       THEN walkEntries(ObjectEntries(val), 1, path, st, o)
  ELSE emit(st, val, path, o)

(***************************************************************************)
(* flattenToKeyValue: the returned object.                                  *)
(***************************************************************************)
\* Array.from(acc.entries()).map(([k, arr]) => [k, arr.join(joiner)])
joinedEntries(m, joiner) ==
  [i \in 1..Len(m) |-> <<m[i].key, Join(m[i].list, joiner)>>]

\* the comparator of entries.sort: negative exactly when a < b
EntryBefore(a, b) == StrLess(a[1], b[1])

RECURSIVE InsertSorted(_, _)
InsertSorted(e, sorted) ==
  IF sorted = <<>> THEN <<e>>
  ELSE IF EntryBefore(e, Head(sorted)) THEN <<e>> \o sorted
  ELSE <<Head(sorted)>> \o InsertSorted(e, Tail(sorted))

RECURSIVE sortEntries(_)
\* entries.sort(([a], [b]) => (a < b ? -1 : a > b ? 1 : 0))
sortEntries(es) ==
  IF es = <<>> THEN <<>>
  ELSE InsertSorted(es[Len(es)], sortEntries(SubSeq(es, 1, Len(es) - 1)))

\* a property key that is an array index: a canonical numeric string of
\* value at most 2^32 - 2
IsArrayIndex(k) ==
  /\ k # <<>>
  /\ \A i \in 1..Len(k) : k[i] \in DigitSet
  /\ (Len(k) > 1 => k[1] # "0")
  /\ \/ Len(k) < 10
     \/ /\ Len(k) = 10
        /\ ~StrLess(<<"4", "2", "9", "4", "9", "6", "7", "2", "9", "4">>, k)

\* ascending numeric order of two array indices
IndexLess(a, b) == Len(a) < Len(b) \/ (Len(a) = Len(b) /\ StrLess(a, b))

RECURSIVE InsertIndex(_, _)
InsertIndex(e, sorted) ==
  IF sorted = <<>> THEN <<e>>
  ELSE IF IndexLess(e[1], Head(sorted)[1]) THEN <<e>> \o sorted
  ELSE <<Head(sorted)>> \o InsertIndex(e, Tail(sorted))

RECURSIVE SortIndices(_)
SortIndices(es) ==
  IF es = <<>> THEN <<>>
  ELSE InsertIndex(es[Len(es)], SortIndices(SubSeq(es, 1, Len(es) - 1)))

IsIndexEntry(e) == IsArrayIndex(e[1])

IsNamedEntry(e) == ~IsArrayIndex(e[1])

\* Object.fromEntries(entries), as the sequence of <<key, value>> that
\* enumerating the object gives: the array-index keys in ascending numeric
\* order, then the other keys in the order they were created
objectFromEntries(es) ==
  SortIndices(SelectSeq(es, IsIndexEntry)) \o SelectSeq(es, IsNamedEntry)

\* the object flattenToKeyValue returns for the accumulator m
buildOutput(m, o) ==
  LET entries == joinedEntries(m, o.joiner) IN
  objectFromEntries(IF o.sortKeys THEN sortEntries(entries) ELSE entries)

(***************************************************************************)
(* The calls: inputs by number of nodes over an alphabet of leaves and of   *)
(* field names, each with the options it is flattened under.                *)
(***************************************************************************)
\* the field names of an object are distinct and enumerate as Object.entries
\* gives them: the array-index names in ascending order, then the others
ValidFieldOrder(fields) ==
  \A i, j \in 1..Len(fields) :
    i < j =>
      /\ fields[i][1] # fields[j][1]
      /\ IsArrayIndex(fields[j][1]) =>
           /\ IsArrayIndex(fields[i][1])
           /\ IndexLess(fields[i][1], fields[j][1])

RECURSIVE TreesOfSize(_, _, _)
RECURSIVE ItemSeqs(_, _, _)
RECURSIVE FieldSeqs(_, _, _)

\* the sequences of values with n nodes in total
ItemSeqs(leaves, names, n) ==
  IF n = 0 THEN {<<>>}
  ELSE UNION {{<<x>> \o rest : x \in TreesOfSize(leaves, names, s),
                              rest \in ItemSeqs(leaves, names, n - s)}
              : s \in 1..n}

\* the sequences of <<name, value>> with n nodes in total, names in order
FieldSeqs(leaves, names, n) ==
  IF n = 0 THEN {<<>>}
  ELSE UNION {{f \in {<<(<<k, x>>)>> \o rest :
                        k \in names,
                        x \in TreesOfSize(leaves, names, s),
                        rest \in FieldSeqs(leaves, names, n - s)}
                 : ValidFieldOrder(f)}
              : s \in 1..n}

\* the values with exactly n nodes
TreesOfSize(leaves, names, n) ==
  (IF n = 1 THEN leaves ELSE {})
  \cup {Arr(items) : items \in ItemSeqs(leaves, names, n - 1)}
  \cup {Obj(fields) : fields \in FieldSeqs(leaves, names, n - 1)}

\* input is a value of at most max nodes: a value of one node, or an array
\* or an object around a first child x of s nodes and the rest of the
\* children, m nodes in all
InputFrom(leaves, names, max) ==
  \/ input \in TreesOfSize(leaves, names, 1)
  \/ \E m \in 1..(max - 1) : \E s \in 1..m :
       \E x \in TreesOfSize(leaves, names, s),
          rest \in ItemSeqs(leaves, names, m - s) :
         input = Arr(<<x>> \o rest)
  \/ \E m \in 1..(max - 1) : \E s \in 1..m :
       \E k \in names, x \in TreesOfSize(leaves, names, s),
          rest \in FieldSeqs(leaves, names, m - s) :
         /\ ValidFieldOrder(<<(<<k, x>>)>> \o rest)
         /\ input = Obj(<<(<<k, x>>)>> \o rest)

DefaultOpts ==
  [delimiter |-> <<".">>, joiner |-> <<",">>, includeNullUndefined |-> FALSE,
   dedupeArrayValues |-> FALSE, sortKeys |-> FALSE]

\* nesting: two leaves, the empty field name, both delimiters
StructureCalls ==
  /\ InputFrom({Num(1), Null}, {<<>>, <<"a">>}, MaxNodes)
  /\ opts \in {[DefaultOpts EXCEPT !.delimiter = d] : d \in {<<".">>, <<"/">>}}

\* aggregation: repeated and distinct values on one path, every combination
\* of includeNullUndefined and dedupeArrayValues, two joiners
ValueCalls ==
  /\ InputFrom({Num(1), Num(2), Undefined}, {<<"a">>}, MaxNodes)
  /\ opts \in {[DefaultOpts EXCEPT !.includeNullUndefined = inc,
                                   !.dedupeArrayValues = ded,
                                   !.joiner = IF inc = ded THEN <<",">>
                                              ELSE <<"|">>]
               : inc \in BOOLEAN, ded \in BOOLEAN}

\* every kind of leaf of the data model, flattened under the defaults and
\* with includeNullUndefined and dedupeArrayValues
LeafKinds ==
  {Null, Undefined, Bool(TRUE), Num(10), BigIntV(7), StrV(<<"x">>),
   DateV(TRUE, 5), DateV(FALSE, 0), Fn("none"), Fn("throws"), Sym}

LeafCalls ==
  /\ InputFrom(LeafKinds, {<<"a">>}, MaxNodesWide)
  /\ opts \in {[DefaultOpts EXCEPT !.includeNullUndefined = inc,
                                   !.dedupeArrayValues = inc]
               : inc \in BOOLEAN}

\* key order: digit-string names, letters, a name that holds the default
\* delimiter; flattened under the defaults, and sorted under "/"
KeyCalls ==
  /\ InputFrom({Num(1)},
               {<<"2">>, <<"1", "0">>, <<"b">>, <<"a">>, <<"a", ".", "b">>},
               MaxNodesWide)
  /\ opts \in {[DefaultOpts EXCEPT !.sortKeys = srt,
                                   !.dedupeArrayValues = srt,
                                   !.delimiter = IF srt THEN <<"/">>
                                                 ELSE <<".">>]
               : srt \in BOOLEAN}

(***************************************************************************)
(* The state machine of one call.                                           *)
(***************************************************************************)
Init ==
  /\ StructureCalls \/ ValueCalls \/ LeafCalls \/ KeyCalls
  /\ pc = "start"
  /\ acc = <<>>
  /\ out = <<>>

\* const acc = new Map(); walk(input, ''): the walk fills the accumulator,
\* or an exception leaves flattenToKeyValue
Walk ==
  /\ pc = "start"
  /\ LET st == walk(input, <<>>, EmptyWalk, opts) IN
       /\ acc' = st.acc
       /\ pc' = IF st.raised THEN "raised" ELSE "walked"
  /\ UNCHANGED <<input, opts, out>>

\* the entries are joined, sorted when asked, and returned as an object
Build ==
  /\ pc = "walked"
  /\ out' = buildOutput(acc, opts)
  /\ pc' = "done"
  /\ UNCHANGED <<input, opts, acc>>

Next == Walk \/ Build

Spec == Init /\ [][Next]_vars

(***************************************************************************)
(* What the input holds, read off the input alone: its leaves in            *)
(* depth-first, left-to-right order, each with the chain of field names     *)
(* that leads to it (arrays add nothing to the chain).                      *)
(***************************************************************************)
IsContainer(v) == v.t \in {"array", "object"}

RECURSIVE LeafOccs(_, _)
RECURSIVE OccsOfItems(_, _, _)
RECURSIVE OccsOfFields(_, _, _)

OccsOfItems(items, i, chain) ==
  IF i > Len(items) THEN <<>>
  ELSE LeafOccs(items[i], chain) \o OccsOfItems(items, i + 1, chain)

OccsOfFields(fields, i, chain) ==
  IF i > Len(fields) THEN <<>>
  ELSE LeafOccs(fields[i][2], Append(chain, fields[i][1]))
       \o OccsOfFields(fields, i + 1, chain)

LeafOccs(v, chain) ==
  IF v.t = "array" THEN OccsOfItems(v.items, 1, chain)
  ELSE IF v.t = "object" THEN OccsOfFields(v.fields, 1, chain)
  ELSE <<[chain |-> chain, val |-> v]>>

InputLeaves == LeafOccs(input, <<>>)

RECURSIVE TrimChain(_)
\* the chain without the empty names at its front
TrimChain(chain) ==
  IF chain # <<>> /\ Head(chain) = <<>> THEN TrimChain(Tail(chain)) ELSE chain

\* the chain joined by the delimiter
ChainPath(chain) == Join(chain, opts.delimiter)

\* the chain past its leading empty names, joined by the delimiter
TrimmedPath(chain) == Join(TrimChain(chain), opts.delimiter)

IsNullish(v) == v.t \in {"null", "undefined"}

IsOpaque(v) == v.t \in {"function", "symbol"}

OutKeys == {out[i][1] : i \in 1..Len(out)}

AccKeys == {acc[i].key : i \in 1..Len(acc)}

StartsWith(s, d) == Len(s) >= Len(d) /\ SubSeq(s, 1, Len(d)) = d

EndsWith(s, d) ==
  Len(s) >= Len(d) /\ SubSeq(s, Len(s) - Len(d) + 1, Len(s)) = d

Contains(s, d) ==
  \E i \in 1..(Len(s) - Len(d) + 1) : SubSeq(s, i, i + Len(d) - 1) = d

(***************************************************************************)
(* C1                                                                       *)
(***************************************************************************)
\* C1, as claimed: every key of the output is the chain of field names of
\* some leaf of the input, joined by the delimiter.
C1_KeyIsJoinedChain ==
  pc = "done" =>
    \A i \in 1..Len(out) :
      \E j \in 1..Len(InputLeaves) : out[i][1] = ChainPath(InputLeaves[j].chain)

\* C1, amended: every key of the output is the chain of field names of some
\* leaf of the input, past the empty names at the front of the chain, joined
\* by the delimiter; arrays contribute no segment.
C1_KeyIsTrimmedChain ==
  pc = "done" =>
    \A i \in 1..Len(out) :
      \E j \in 1..Len(InputLeaves) :
        out[i][1] = TrimmedPath(InputLeaves[j].chain)

\* an array directly inside an array around an object in an object: the key
\* has two segments and none for the arrays
C1_Witness ==
  /\ pc = "done"
  /\ input.t = "array"
  /\ Len(input.items) = 1
  /\ input.items[1].t = "array"
  /\ \E i \in 1..Len(out) :
       out[i][1] = <<"a">> \o opts.delimiter \o <<"a">>

(***************************************************************************)
(* C2                                                                       *)
(***************************************************************************)
RECURSIVE StringsOnPath(_, _)
\* the strings of the leaves of occs that land on path, in the order of occs
StringsOnPath(occs, path) ==
  IF occs = <<>> THEN <<>>
  ELSE LET s == toStr(Head(occs).val, opts.includeNullUndefined) IN
       (IF TrimmedPath(Head(occs).chain) = path /\ s.r = "string"
        THEN <<s.s>> ELSE <<>>)
       \o StringsOnPath(Tail(occs), path)

\* C2: without de-duplication the value of every key is the strings of the
\* leaves that land on its path, in depth-first left-to-right order,
\* concatenated with the joiner.
C2_ValueIsLeavesInOrder ==
  (pc = "done" /\ ~opts.dedupeArrayValues) =>
    \A i \in 1..Len(out) :
      out[i][2] = Join(StringsOnPath(InputLeaves, out[i][1]), opts.joiner)

(***************************************************************************)
(* C3                                                                       *)
(***************************************************************************)
RECURSIVE DedupFirst(_)
\* list with every occurrence of a value after its first removed
DedupFirst(list) ==
  IF list = <<>> THEN <<>>
  ELSE LET front == DedupFirst(SubSeq(list, 1, Len(list) - 1))
           last == list[Len(list)]
       IN IF \E i \in 1..Len(front) : front[i] = last
          THEN front ELSE Append(front, last)

\* the walk of the same input under the same options but dedupeArrayValues
WalkWithoutDedupe ==
  walk(input, <<>>, EmptyWalk, [opts EXCEPT !.dedupeArrayValues = FALSE])

\* C3: with dedupeArrayValues the keys are those of the flattening without
\* it, and each key's list is the list without it, later occurrences removed;
\* the output joins that list.  The one call raises exactly when the other
\* does.
C3_DedupeKeepsFirstOccurrences ==
  (opts.dedupeArrayValues /\ pc # "start") =>
    LET base == WalkWithoutDedupe.acc IN
    /\ pc = "raised" <=> WalkWithoutDedupe.raised
    /\ pc # "raised" =>
         /\ Len(acc) = Len(base)
         /\ \A i \in 1..Len(acc) :
              /\ acc[i].key = base[i].key
              /\ acc[i].list = DedupFirst(base[i].list)
    /\ pc = "done" =>
         /\ OutKeys = {base[i].key : i \in 1..Len(base)}
         /\ \A i \in 1..Len(base) : \E j \in 1..Len(out) :
              /\ out[j][1] = base[i].key
              /\ out[j][2] = Join(DedupFirst(base[i].list), opts.joiner)

\* a key whose values repeat, not side by side, and are told apart
C3_Witness ==
  /\ pc = "done"
  /\ opts.dedupeArrayValues
  /\ \E i \in 1..Len(acc) :
       /\ Len(acc[i].list) = 2
       /\ Len(WalkWithoutDedupe.acc[i].list) = 3
       /\ WalkWithoutDedupe.acc[i].list[1] = WalkWithoutDedupe.acc[i].list[3]

(***************************************************************************)
(* C4                                                                       *)
(***************************************************************************)
RECURSIVE IsPrimitiveArray(_)
\* an array whose elements are primitives, or such arrays
IsPrimitiveArray(v) ==
  /\ v.t = "array"
  /\ \A i \in 1..Len(v.items) :
       \/ v.items[i].t \in {"null", "undefined", "boolean", "number",
                            "bigint", "string"}
       \/ IsPrimitiveArray(v.items[i])

\* C4: no key of the output is empty, and a call on a top-level primitive,
\* date or opaque value, or on an array of primitives, returns the empty
\* mapping.
C4_NoEmptyKey ==
  /\ pc = "done" => \A i \in 1..Len(out) : out[i][1] # <<>>
  /\ ((~IsContainer(input) \/ IsPrimitiveArray(input))
        /\ pc \in {"done", "raised"})
       => (pc = "done" /\ out = <<>>)

(***************************************************************************)
(* C5                                                                       *)
(***************************************************************************)
\* the number of leaves of occs, null and undefined aside, that land on path
CountOnPath(occs, path) ==
  Cardinality({j \in 1..Len(occs) :
                 /\ TrimmedPath(occs[j].chain) = path
                 /\ ~IsNullish(occs[j].val)})

\* C5: without includeNullUndefined no null or undefined adds to a list; with
\* it every null and undefined at a non-empty path, a field value or an array
\* element, puts its literal on the list of that path.
C5_NullUndefined ==
  pc \in {"walked", "done"} =>
    IF ~opts.includeNullUndefined
    THEN \A i \in 1..Len(acc) :
           Len(acc[i].list) <= CountOnPath(InputLeaves, acc[i].key)
    ELSE \A j \in 1..Len(InputLeaves) :
           (IsNullish(InputLeaves[j].val)
              /\ TrimmedPath(InputLeaves[j].chain) # <<>>)
             => \E i \in 1..Len(acc) :
                  /\ acc[i].key = TrimmedPath(InputLeaves[j].chain)
                  /\ Includes(acc[i].list, StringOf(InputLeaves[j].val))

(***************************************************************************)
(* C6                                                                       *)
(***************************************************************************)
\* C6: the call never raises.
C6_NeverRaises == pc # "raised"

(***************************************************************************)
(* C7                                                                       *)
(***************************************************************************)
\* C7: the keys of the returned object enumerate in ascending order of
\* string comparison with sortKeys, and in the order the walk first met them
\* without it.
C7_KeyOrder ==
  pc = "done" =>
    IF opts.sortKeys
    THEN \A i, j \in 1..Len(out) : i < j => StrLess(out[i][1], out[j][1])
    ELSE /\ Len(out) = Len(acc)
         /\ \A i \in 1..Len(out) : out[i][1] = acc[i].key

(***************************************************************************)
(* C8                                                                       *)
(***************************************************************************)
RECURSIVE IsJSON(_)
\* a value made of objects, arrays, null, booleans, numbers and strings
IsJSON(v) ==
  IF v.t = "array" THEN \A i \in 1..Len(v.items) : IsJSON(v.items[i])
  ELSE IF v.t = "object"
       THEN \A i \in 1..Len(v.fields) : IsJSON(v.fields[i][2])
       ELSE v.t \in {"null", "boolean", "number", "string"}

RECURSIVE ObjectChains(_, _)
\* the chains of the positions of v that hold an object, or an array with an
\* object among its elements
ObjectChains(v, chain) ==
  IF v.t = "array"
  THEN UNION {ObjectChains(v.items[i], chain) : i \in 1..Len(v.items)}
  ELSE IF v.t = "object"
       THEN {chain}
            \cup UNION {ObjectChains(v.fields[i][2],
                                     Append(chain, v.fields[i][1]))
                        : i \in 1..Len(v.fields)}
       ELSE {}

\* key is the path of an object-holding position and other keys extend it
IsInternalKey(key) ==
  /\ \E c \in ObjectChains(input, <<>>) : TrimmedPath(c) = key
  /\ \E k \in OutKeys : k # key /\ StartsWith(k, key \o opts.delimiter)

\* C8, as claimed: for a JSON input under the default options every leaf
\* path (the empty path of a top-level leaf aside) is a key and no key is an
\* internal path.
C8_LeafPathsOnly ==
  (pc = "done" /\ IsJSON(input) /\ opts = DefaultOpts) =>
    /\ \A j \in 1..Len(InputLeaves) :
         TrimmedPath(InputLeaves[j].chain) # <<>>
           => TrimmedPath(InputLeaves[j].chain) \in OutKeys
    /\ \A k \in OutKeys : ~IsInternalKey(k)

\* C8, amended: for a JSON input under the default options the keys are
\* exactly the non-empty paths on which a leaf other than null lands; a key
\* is an internal path only where such a leaf lands on that path too.
C8_KeysAreNonNullLeafPaths ==
  (pc = "done" /\ IsJSON(input) /\ opts = DefaultOpts) =>
    OutKeys = {TrimmedPath(InputLeaves[j].chain) :
                 j \in {n \in 1..Len(InputLeaves) :
                          InputLeaves[n].val.t # "null"}} \ {<<>>}

\* a number beside an object in one array: its path is a key and is the
\* path of the object's position, which another key extends
C8_Witness ==
  /\ pc = "done"
  /\ IsJSON(input)
  /\ opts = DefaultOpts
  /\ \E k \in OutKeys : IsInternalKey(k)

(***************************************************************************)
(* C9                                                                       *)
(***************************************************************************)
\* the string an opaque leaf stands for: its JSON serialization when that is
\* a string, its generic text otherwise
OpaqueText(v) ==
  IF JSONStringify(v).r = "string" THEN JSONStringify(v).s ELSE StringOf(v)

\* C9: every function or symbol at a non-empty path, a field value or an
\* array element, puts its string on the list of that path.
C9_OpaqueLeafContributes ==
  pc \in {"walked", "done"} =>
    \A j \in 1..Len(InputLeaves) :
      (IsOpaque(InputLeaves[j].val)
         /\ TrimmedPath(InputLeaves[j].chain) # <<>>)
        => \E i \in 1..Len(acc) :
             /\ acc[i].key = TrimmedPath(InputLeaves[j].chain)
             /\ Includes(acc[i].list, OpaqueText(InputLeaves[j].val))

(***************************************************************************)
(* C10                                                                      *)
(***************************************************************************)
RECURSIVE NamesAvoid(_, _)
\* no non-empty field name of v contains the delimiter d
NamesAvoid(v, d) ==
  IF v.t = "array" THEN \A i \in 1..Len(v.items) : NamesAvoid(v.items[i], d)
  ELSE IF v.t = "object"
       THEN \A i \in 1..Len(v.fields) :
              /\ v.fields[i][1] # <<>> => ~Contains(v.fields[i][1], d)
              /\ NamesAvoid(v.fields[i][2], d)
       ELSE TRUE

RECURSIVE SplitFrom(_, _, _)
\* the segments of cur \o s between the occurrences of d in s
SplitFrom(s, d, cur) ==
  IF s = <<>> THEN <<cur>>
  ELSE IF StartsWith(s, d)
       THEN <<cur>> \o SplitFrom(SubSeq(s, Len(d) + 1, Len(s)), d, <<>>)
       ELSE SplitFrom(Tail(s), d, Append(cur, Head(s)))

=============================================================================
